---- MODULE Spec2Model ----
(***************************************************************************)
(* A model of watcher.py: the label-driven network reconciler.  Two        *)
(* threads (the main thread: initial sweep, then the event loop; and the   *)
(* daemon rescan thread) call reconcile_container against a container      *)
(* runtime whose state (containers, their attachments, the event stream)   *)
(* is part of the model.  Strings the code computes on (label values,      *)
(* names, aliases, network modes) are sequences of one-character strings.  *)
(***************************************************************************)
EXTENDS Integers, Sequences, FiniteSets, TLC

(***************************************************************************)
(* Bounds of the model.                                                    *)
(***************************************************************************)
\* events the open stream may hold undelivered
MaxQueue == 1

\* the highest index n of an AUTONET_n_KEY / AUTONET_n_NET variable that is set
MaxIndex == 3

\* the longest run of whitespace around a label value
MaxPad == 1
\* how far beyond the truncation length the alias candidates reach
MaxOver == 2

\* the length sanitise_alias truncates to ([:64])
AliasMax == 64
\* the longest interior the alias pattern accepts ({0,61})
AliasInterior == 61

(***************************************************************************)
(* Strings as character sequences.                                         *)
(***************************************************************************)
None == <<"None">>

UPPER == <<"A","B","C","D","E","F","G","H","I","J","K","L","M",
           "N","O","P","Q","R","S","T","U","V","W","X","Y","Z">>
LOWER == <<"a","b","c","d","e","f","g","h","i","j","k","l","m",
           "n","o","p","q","r","s","t","u","v","w","x","y","z">>
DIGIT == <<"0","1","2","3","4","5","6","7","8","9">>

Range(s) == {s[i] : i \in 1..Len(s)}

Whitespace == {" ", "\t", "\n"}

IsAlnum(c) == c \in Range(UPPER) \cup Range(LOWER) \cup Range(DIGIT)

\* str.lower() on one character
LowerChar(c) ==
  IF c \in Range(UPPER) THEN LOWER[CHOOSE i \in 1..Len(UPPER) : UPPER[i] = c] ELSE c

\* str.lower()
Lower(s) == [i \in 1..Len(s) |-> LowerChar(s[i])]

\* str.lstrip(chars)
RECURSIVE LStrip(_, _)
LStrip(s, chars) ==
  IF s # <<>> /\ Head(s) \in chars THEN LStrip(Tail(s), chars) ELSE s

\* str.rstrip(chars)
RECURSIVE RStrip(_, _)
RStrip(s, chars) ==
  IF s # <<>> /\ s[Len(s)] \in chars THEN RStrip(SubSeq(s, 1, Len(s) - 1), chars) ELSE s

\* str.strip()
Strip(s) == RStrip(LStrip(s, Whitespace), Whitespace)

\* s[:n]
Take(s, n) == SubSeq(s, 1, IF Len(s) < n THEN Len(s) ELSE n)

\* s.startswith(p)
StartsWith(s, p) == Len(s) >= Len(p) /\ SubSeq(s, 1, Len(p)) = p

(***************************************************************************)
(* sanitise_alias and label_truthy.                                        *)
(***************************************************************************)
\* the pattern body  [a-zA-Z0-9]([a-zA-Z0-9\-]{0,61}[a-zA-Z0-9])?  over all of s
AliasBody(s) ==
  /\ Len(s) >= 1
  /\ IsAlnum(s[1])
  /\ \/ Len(s) = 1
     \/ /\ Len(s) - 2 <= AliasInterior
        /\ IsAlnum(s[Len(s)])
        /\ \A i \in 2..(Len(s) - 1) : IsAlnum(s[i]) \/ s[i] = "-"

\* _ALIAS_RE.match(s): ^...$ where $ also matches just before a final newline
AliasMatch(s) ==
  \/ AliasBody(s)
  \/ /\ s # <<>>
     /\ s[Len(s)] = "\n"
     /\ AliasBody(SubSeq(s, 1, Len(s) - 1))

sanitise_alias(value, fallback) ==
  LET v == Take(Strip(value), AliasMax)
  IN  IF AliasMatch(v) THEN v ELSE fallback

Falsy == { <<>>, <<"0">>, <<"f","a","l","s","e">>, <<"n","o">>, <<"o","f","f">> }

\* label_truthy with .strip() forgotten
label_truthy_unstripped(value) ==
  IF value = None THEN FALSE ELSE Lower(value) \notin Falsy

label_truthy(value) ==
  IF value = None THEN FALSE ELSE Lower(Strip(value)) \notin Falsy

(***************************************************************************)
(* Configuration (load_autonet_config's result) and the runtime's data.    *)
(***************************************************************************)
Ids == {1, 2}
Networks == {"n1", "n2"}
LabelKeys == {"k1", "k2", "alias"}
Threads == {"main", "rescan"}

HostMode == <<"h","o","s","t">>
NoneMode == <<"n","o","n","e">>
BridgeMode == <<"b","r","i","d","g","e">>
ContainerPrefix == <<"c","o","n","t","a","i","n","e","r",":">>
SharedMode == ContainerPrefix \o <<"a","b","c">>

MapDistinct == << [index |-> 1, label_key |-> "k1", network |-> "n1"],
                  [index |-> 2, label_key |-> "k2", network |-> "n2"] >>
MapShared   == << [index |-> 1, label_key |-> "k1", network |-> "n1"],
                  [index |-> 2, label_key |-> "k2", network |-> "n1"] >>

\* the configuration with every option at its default (two mappings given)
DefaultCfg ==
  [ mappings |-> MapDistinct,
    alias_label |-> "alias",
    initial_attach |-> TRUE,
    initial_running_only |-> FALSE,
    auto_disconnect |-> TRUE,
    rescan_seconds |-> 30 ]

\* the default, and the default with one option changed
Configs ==
  { DefaultCfg,
    [DefaultCfg EXCEPT !.mappings = MapShared],
    [DefaultCfg EXCEPT !.initial_attach = FALSE],
    [DefaultCfg EXCEPT !.initial_running_only = TRUE],
    [DefaultCfg EXCEPT !.auto_disconnect = FALSE],
    [DefaultCfg EXCEPT !.rescan_seconds = 0] }

NoLabels == [k \in LabelKeys |-> None]

\* container attributes fixed at creation, and the networks it was created on
AttachMe == [ Name |-> <<"/","w","e","b">>, NetworkMode |-> BridgeMode,
              Labels |-> [NoLabels EXCEPT !["k1"] = <<"t","r","u","e">>],
              Networks0 |-> {} ]
MoveMe   == [ Name |-> <<"/","d","b">>, NetworkMode |-> BridgeMode,
              Labels |-> [NoLabels EXCEPT !["k1"] = <<" ","O","f","f">>,
                                          !["k2"] = <<"y","e","s">>,
                                          !["alias"] = <<"d","b","-","1">>],
              Networks0 |-> {"n1"} ]
OnHost   == [ Name |-> <<"/","h">>, NetworkMode |-> HostMode,
              Labels |-> [NoLabels EXCEPT !["k1"] = <<"1">>],
              Networks0 |-> {} ]
NoNet    == [ Name |-> <<"/","n">>, NetworkMode |-> NoneMode,
              Labels |-> [NoLabels EXCEPT !["k1"] = <<"o","n">>],
              Networks0 |-> {} ]
Sidecar  == [ Name |-> <<"/","s">>, NetworkMode |-> SharedMode,
              Labels |-> [NoLabels EXCEPT !["k2"] = <<"t","r","u","e">>],
              Networks0 |-> {} ]

\* the containers that exist at startup: container 1, container 2
Blueprints ==
  { <<AttachMe, MoveMe>>, <<OnHost, AttachMe>>, <<MoveMe, NoNet>>, <<Sidecar, OnHost>> }

VARIABLES
  cfg,      \* the configuration dict
  attrs,    \* per container: Name, NetworkMode, Labels (fixed at creation)
  alive,    \* the containers that exist
  running,  \* the containers that run
  nets,     \* per container: the networks it is attached to
  stream,   \* the events of the open event stream not yet delivered
  cache,    \* unsupported_network_cache
  pc,       \* per thread: where it is
  frame,    \* per thread: the reconcile_container call in progress
  todo,     \* per thread: the listed containers still to reconcile
  warned,   \* per container: "Skipping" warnings logged since its last pruning
  pruned,   \* the ids for which the event loop processed a destroy event
  quiet,    \* per thread: the container of its latest completed reconcile_container
  audit,    \* the thread whose quiet is kept, or "none" (history: no action of the
            \* program reads it)
  environ,  \* os.environ: the variables that are set, with their values
  lock,     \* _cache_lock: the thread that holds it, or "free"
  call,     \* per thread: the cache_add / cache_remove call it is in, step by step
  wins,     \* per id: cache_add calls that returned True since its last removal
  probe     \* a call of a pure function: its arguments and its result

vars == << cfg, attrs, alive, running, nets, stream, cache, pc, frame, todo,
           warned, pruned, quiet, audit, environ, lock, call, wins, probe >>

\* what main()'s threads leave alone once the configuration is loaded, where
\* cache_add and cache_remove are taken as the single steps _cache_lock makes them
apart == << environ, lock, call, wins, probe >>

NoEnviron == << >>
NoCall == [ op |-> "none", cid |-> 0, before |-> FALSE, ret |-> "none" ]
NoProbe == [ fn |-> "none" ]

NoFrame == [ ctx |-> "none", cid |-> 0, snap |-> {}, idx |-> 0,
             second |-> FALSE, firstOk |-> FALSE, clean |-> FALSE ]
NoQuiet == [ cid |-> 0, ok |-> FALSE ]

ReconcilePcs == {"reload", "cache_add", "warn", "mapping", "connect", "disconnect"}

\* the state when main() starts, for a configuration and a set of containers
InitWith(configs, blueprints, audited) ==
  /\ cfg \in configs
  /\ attrs \in blueprints
  /\ alive = Ids
  /\ running = {1}
  /\ nets = [c \in Ids |-> attrs[c].Networks0]
  /\ stream = <<>>
  /\ cache = {}
  /\ pc = [t \in Threads |-> IF t = "main" THEN "initial" ELSE "off"]
  /\ frame = [t \in Threads |-> NoFrame]
  /\ todo = [t \in Threads |-> <<>>]
  /\ warned = [c \in Ids |-> 0]
  /\ pruned = {}
  /\ quiet = [t \in Threads |-> NoQuiet]
  /\ audit \in audited
  /\ environ = NoEnviron
  /\ lock = "free"
  /\ call = [t \in Threads |-> NoCall]
  /\ wins = [c \in Ids |-> 0]
  /\ probe = NoProbe

Init == InitWith(Configs, Blueprints, {"none"})

(***************************************************************************)
(* reconcile_container.  A remote call ends "ok", or raises NotFound,      *)
(* APIError, or an exception of another class ("Other").                   *)
(***************************************************************************)
\* get_network_mode
get_network_mode(c) == attrs[c].NetworkMode

\* the network_mode test of reconcile_container
unsupported(net_mode) ==
  /\ net_mode # None
  /\ net_mode # <<>>
  /\ (net_mode = HostMode \/ StartsWith(net_mode, ContainerPrefix))

\* attrs.get("Name", "").lstrip("/") or container.name
display_name(c) == LStrip(attrs[c].Name, {"/"})

\* labels.get(alias_label, name), sanitised
alias_for(c) ==
  LET raw == attrs[c].Labels[cfg.alias_label]
  IN  sanitise_alias(IF raw = None THEN display_name(c) ELSE raw, display_name(c))

\* decide with "and not is_connected" forgotten
decide_unconditionally(wants_attach, is_connected, auto_disconnect) ==
  IF wants_attach THEN "connect"
  ELSE IF is_connected /\ auto_disconnect THEN "disconnect"
  ELSE "none"

\* decide with "and auto_disconnect" forgotten
decide_ignoring_flag(wants_attach, is_connected, auto_disconnect) ==
  IF wants_attach /\ ~is_connected THEN "connect"
  ELSE IF ~wants_attach /\ is_connected THEN "disconnect"
  ELSE "none"

\* the if / elif / else of one mapping
decide(wants_attach, is_connected, auto_disconnect) ==
  IF wants_attach /\ ~is_connected THEN "connect"
  ELSE IF ~wants_attach /\ is_connected /\ auto_disconnect THEN "disconnect"
  ELSE "none"

\* where a thread goes when reconcile_container returns to its caller
return_pc(ctx) == IF ctx = "event" THEN "streaming" ELSE "next"

\* where a thread goes when an exception leaves reconcile_container: the event
\* loop's "except Exception" catches it; the initial sweep and the rescan loop do not
raise_pc(ctx) ==
  CASE ctx = "event"   -> "recovering"
    [] ctx = "initial" -> "crashed"
    [] OTHER           -> "dead"

\* stream_after for one client shared by both threads: an exception in either
\* thread breaks the connection the stream is read from
stream_of_shared_client(ctx, how) ==
  IF how = "raise" THEN <<>> ELSE stream

\* the stream after thread t left a call by how ("return" or "raise")
stream_after(ctx, how) ==
  IF ctx = "event" /\ how = "raise" THEN <<>> ELSE stream

\* the frame of a call to reconcile_container(container c) by thread t
begin(t, c, ctx) ==
  [ ctx |-> ctx, cid |-> c, snap |-> {}, idx |-> 0,
    second |-> quiet[t].cid = c, firstOk |-> quiet[t].ok,
    clean |-> audit = t ]

\* another thread's frame and record when container c's attachments are changed
touched_frame(u, c) ==
  IF audit = u /\ frame[u].cid = c
  THEN [frame[u] EXCEPT !.clean = FALSE,
                        !.second = IF pc[u] = "reload" THEN FALSE ELSE @]
  ELSE frame[u]
touched_quiet(u, c) == IF quiet[u].cid = c THEN NoQuiet ELSE quiet[u]

\* what is remembered of a call that returned: its container, and whether its
\* reload and its runtime calls all succeeded with nobody else changing the container
completed(t, f) == IF audit = t THEN [cid |-> f.cid, ok |-> f.clean] ELSE NoQuiet

\* thread t leaves reconcile_container with final frame f
leave(t, f, how) ==
  /\ pc' = [pc EXCEPT ![t] = IF how = "raise" THEN raise_pc(f.ctx) ELSE return_pc(f.ctx)]
  /\ stream' = stream_after(f.ctx, how)
  /\ quiet' = [quiet EXCEPT ![t] =
                 IF how = "raise" THEN NoQuiet ELSE completed(t, f)]
  /\ frame' = [frame EXCEPT ![t] = NoFrame]

\* container.reload() and the network_mode test
Reload(t, o) ==
  /\ pc[t] = "reload"
  /\ LET f == frame[t] c == f.cid IN
     /\ o = "ok" => c \in alive
     /\ o = "NotFound" => c \notin alive
     /\ IF o = "ok"
        THEN /\ pc' = [pc EXCEPT ![t] =
                        IF unsupported(get_network_mode(c)) THEN "cache_add" ELSE "mapping"]
             /\ frame' = [frame EXCEPT ![t] = [f EXCEPT !.snap = nets[c], !.idx = 1]]
             /\ UNCHANGED << stream, quiet >>
        ELSE leave(t, [f EXCEPT !.clean = FALSE], IF o = "Other" THEN "raise" ELSE "return")
  /\ UNCHANGED << apart, cfg, audit, attrs, alive, running, nets, cache, todo, warned, pruned >>

\* cache_add with the membership test forgotten: it always returns True
CacheAddAlways(t) ==
  /\ pc[t] = "cache_add"
  /\ cache' = cache \cup {frame[t].cid}
  /\ pc' = [pc EXCEPT ![t] = "warn"]
  /\ UNCHANGED << apart, cfg, audit, attrs, alive, running, nets, stream, quiet, frame, todo,
                  warned, pruned >>

\* cache_add(container_id), under _cache_lock
CacheAdd(t) ==
  /\ pc[t] = "cache_add"
  /\ LET f == frame[t] IN
     IF f.cid \in cache
     THEN /\ leave(t, f, "return")
          /\ UNCHANGED cache
     ELSE /\ cache' = cache \cup {f.cid}
          /\ pc' = [pc EXCEPT ![t] = "warn"]
          /\ UNCHANGED << stream, quiet, frame >>
  /\ UNCHANGED << apart, cfg, audit, attrs, alive, running, nets, todo, warned, pruned >>

\* log("Skipping ..."), then return
Warn(t) ==
  /\ pc[t] = "warn"
  /\ warned' = [warned EXCEPT ![frame[t].cid] = IF @ < 2 THEN @ + 1 ELSE @]
  /\ leave(t, frame[t], "return")
  /\ UNCHANGED << apart, cfg, audit, attrs, alive, running, nets, cache, todo, pruned >>

\* the mapping thread t is at
mapping_of(t) == cfg.mappings[frame[t].idx]

\* the decision thread t takes for the mapping it is at
decision(t) ==
  LET c == frame[t].cid
      m == mapping_of(t)
      wants_attach == label_truthy(attrs[c].Labels[m.label_key])
      is_connected == m.network \in frame[t].snap
  IN  decide(wants_attach, is_connected, cfg.auto_disconnect)

\* the end of one iteration of "for m in mappings": the next mapping, or return
step_on(t, f) ==
  IF f.idx < Len(cfg.mappings)
  THEN /\ pc' = [pc EXCEPT ![t] = "mapping"]
       /\ frame' = [frame EXCEPT ![t] = [f EXCEPT !.idx = @ + 1]]
       /\ UNCHANGED << stream, quiet >>
  ELSE leave(t, f, "return")

\* one iteration of "for m in mappings", up to the runtime call
MapStep(t) ==
  /\ pc[t] = "mapping"
  /\ IF decision(t) = "none"
     THEN step_on(t, frame[t])
     ELSE /\ pc' = [pc EXCEPT ![t] = decision(t)]
          /\ UNCHANGED << stream, quiet, frame >>
  /\ UNCHANGED << apart, cfg, audit, attrs, alive, running, nets, cache, todo, warned, pruned >>

\* the attachments of container c after a call op on network n ending o
attached_after(c, op, n, o) ==
  IF o # "ok" THEN nets[c]
  ELSE IF op = "connect" THEN nets[c] \cup {n} ELSE nets[c] \ {n}

\* connect_container_to_network / disconnect_container_from_network, with its
\* "except APIError"
ApiCall(t, o) ==
  /\ pc[t] \in {"connect", "disconnect"}
  /\ o \in {"ok", "APIError", "Other"}
  /\ LET f == frame[t]
         c == f.cid
         after == attached_after(c, pc[t], mapping_of(t).network, o)
         g == [f EXCEPT !.clean = @ /\ o = "ok"]
         mine == IF o = "Other" THEN NoFrame
                 ELSE IF f.idx < Len(cfg.mappings) THEN [g EXCEPT !.idx = @ + 1]
                 ELSE NoFrame
     IN
     /\ o = "ok" => c \in alive
     /\ nets' = [nets EXCEPT ![c] = after]
     /\ pc' = [pc EXCEPT ![t] =
                IF o = "Other" THEN raise_pc(f.ctx)
                ELSE IF f.idx < Len(cfg.mappings) THEN "mapping"
                ELSE return_pc(f.ctx)]
     /\ stream' = stream_after(f.ctx, IF o = "Other" THEN "raise" ELSE "return")
     /\ frame' = [u \in Threads |->
                   IF u = t THEN mine
                   ELSE IF after # nets[c] THEN touched_frame(u, c) ELSE frame[u]]
     /\ quiet' = [u \in Threads |->
                   IF u = t
                   THEN IF mine # NoFrame THEN quiet[t]
                        ELSE IF o = "Other" THEN NoQuiet
                        ELSE completed(t, g)
                   ELSE IF after # nets[c] THEN touched_quiet(u, c) ELSE quiet[u]]
  /\ UNCHANGED << apart, cfg, audit, attrs, alive, running, cache, todo, warned, pruned >>

(***************************************************************************)
(* The runtime: container lifecycle and the event stream.  An event field  *)
(* that is missing is "" (a string) or 0 (the id): event.get() gives None  *)
(* there, which the code tests only for truth.                             *)
(***************************************************************************)
RECURSIVE SeqOf(_)
SeqOf(S) ==
  IF S = {} THEN <<>>
  ELSE LET m == CHOOSE x \in S : \A y \in S : x <= y
       IN  <<m>> \o SeqOf(S \ {m})

\* the stream returned by client.events() is open while the for loop runs
StreamOpen ==
  \/ pc["main"] = "streaming"
  \/ pc["main"] \in ReconcilePcs /\ frame["main"].ctx = "event"

Emit(e) ==
  /\ StreamOpen => Len(stream) < MaxQueue
  /\ stream' = IF StreamOpen THEN Append(stream, e) ELSE stream

NoiseEvents ==
  { [Type |-> "network",   status |-> "",       Action |-> "connect", id |-> 0],
    [Type |-> "container", status |-> "create", Action |-> "create",  id |-> 1],
    [Type |-> "container", status |-> "start",  Action |-> "start",   id |-> 0] }

\* docker restart: the container runs (again)
EnvRestart(c) ==
  /\ c \in alive
  /\ running' = running \cup {c}
  /\ Emit([Type |-> "container", status |-> "", Action |-> "restart", id |-> c])
  /\ UNCHANGED << apart, cfg, audit, attrs, alive, nets, cache, pc, frame, todo, warned,
                  pruned, quiet >>

EnvDestroy(c) ==
  /\ c \in alive
  /\ alive' = alive \ {c}
  /\ running' = running \ {c}
  /\ nets' = [nets EXCEPT ![c] = {}]
  /\ Emit([Type |-> "container", status |-> "destroy", Action |-> "destroy", id |-> c])
  /\ UNCHANGED << apart, cfg, audit, attrs, cache, pc, frame, todo, warned, pruned, quiet >>

EnvNoise(e) ==
  /\ StreamOpen
  /\ Emit(e)
  /\ UNCHANGED << apart, cfg, audit, attrs, alive, running, nets, cache, pc, frame, todo, warned, pruned, quiet >>

(***************************************************************************)
(* main(): initial_attach_all, the rescan thread's start, event_loop.      *)
(***************************************************************************)
\* relevant_statuses with the creation of a container taken for relevant
relevant_statuses_with_create ==
  {"create", "start", "restart", "die", "stop", "destroy", "update", "rename"}

relevant_statuses == {"start", "restart", "die", "stop", "destroy", "update", "rename"}

\* initial_attach_all up to its for loop
InitialAttachAll(o) ==
  /\ pc["main"] = "initial"
  /\ IF ~cfg.initial_attach
     THEN /\ o = "ok"
          /\ pc' = [pc EXCEPT !["main"] = "spawn"]
          /\ UNCHANGED todo
     ELSE /\ o \in {"ok", "APIError", "Other"}
          /\ pc' = [pc EXCEPT !["main"] =
                     CASE o = "ok" -> "next" [] o = "APIError" -> "spawn" [] OTHER -> "crashed"]
          /\ todo' = [todo EXCEPT !["main"] =
                       IF o = "ok"
                       THEN SeqOf(IF cfg.initial_running_only THEN running ELSE alive)
                       ELSE @]
  /\ UNCHANGED << apart, cfg, audit, attrs, alive, running, nets, stream, cache, frame, warned, pruned, quiet >>

\* the head of "for container in containers" (initial sweep, rescan pass)
PassNext(t) ==
  /\ pc[t] = "next"
  /\ IF todo[t] # <<>>
     THEN /\ pc' = [pc EXCEPT ![t] = "reload"]
          /\ frame' = [frame EXCEPT ![t] =
                        begin(t, Head(todo[t]), IF t = "main" THEN "initial" ELSE "rescan")]
          /\ todo' = [todo EXCEPT ![t] = Tail(@)]
          /\ quiet' = [quiet EXCEPT ![t] = NoQuiet]
     ELSE /\ pc' = [pc EXCEPT ![t] = IF t = "main" THEN "spawn" ELSE "sleep"]
          /\ UNCHANGED << frame, todo, quiet >>
  /\ UNCHANGED << apart, cfg, audit, attrs, alive, running, nets, stream, cache, warned, pruned >>

\* Spawn with the test of the interval forgotten
SpawnAlways ==
  /\ pc["main"] = "spawn"
  /\ pc' = [pc EXCEPT !["main"] = "open", !["rescan"] = "entry"]
  /\ UNCHANGED << apart, cfg, audit, attrs, alive, running, nets, stream, cache, frame,
                  todo, warned, pruned, quiet >>

\* main: start the rescan thread when the interval is positive, enter event_loop
Spawn ==
  /\ pc["main"] = "spawn"
  /\ pc' = [pc EXCEPT !["main"] = "open",
                      !["rescan"] = IF cfg.rescan_seconds > 0 THEN "entry" ELSE @]
  /\ UNCHANGED << apart, cfg, audit, attrs, alive, running, nets, stream, cache, frame, todo, warned, pruned, quiet >>

\* client.events(decode=True), inside the try
OpenStream(o) ==
  /\ pc["main"] = "open"
  /\ o \in {"ok", "Other"}
  /\ pc' = [pc EXCEPT !["main"] = IF o = "ok" THEN "streaming" ELSE "recovering"]
  /\ stream' = <<>>
  /\ UNCHANGED << apart, cfg, audit, attrs, alive, running, nets, cache, frame, todo, warned,
                  pruned, quiet >>

\* the status the event loop reads: event.get("status") or event.get("Action")
event_status(e) == IF e.status # "" THEN e.status ELSE e.Action

\* the three filters at the top of the for loop
discarded(e) ==
  \/ e.Type # "container"
  \/ event_status(e) \notin relevant_statuses
  \/ e.id = 0

\* one iteration of "for event in client.events(decode=True)"
NextEvent(o) ==
  /\ pc["main"] = "streaming"
  /\ stream # <<>>
  /\ LET e == Head(stream) IN
     IF discarded(e)
     THEN /\ o = "ok"
          /\ stream' = Tail(stream)
          /\ UNCHANGED << cache, pc, frame, warned, pruned, quiet >>
     ELSE IF event_status(e) = "destroy"
     THEN /\ o = "ok"
          /\ stream' = Tail(stream)
          /\ cache' = cache \ {e.id}
          /\ pruned' = pruned \cup {e.id}
          /\ warned' = [warned EXCEPT ![e.id] = 0]
          /\ UNCHANGED << pc, frame, quiet >>
     ELSE /\ o = "ok" => e.id \in alive
          /\ o = "NotFound" => e.id \notin alive
          /\ stream' = IF o = "Other" THEN <<>> ELSE Tail(stream)
          /\ pc' = [pc EXCEPT !["main"] =
                     CASE o = "ok" -> "reload" [] o = "Other" -> "recovering" [] OTHER -> @]
          /\ frame' = [frame EXCEPT !["main"] =
                        IF o = "ok" THEN begin("main", e.id, "event") ELSE @]
          /\ quiet' = [quiet EXCEPT !["main"] = IF o = "ok" THEN NoQuiet ELSE @]
          /\ UNCHANGED << cache, warned, pruned >>
  /\ UNCHANGED << apart, cfg, audit, attrs, alive, running, nets, todo >>

\* the stream itself fails: "except Exception" in event_loop
StreamFail ==
  /\ pc["main"] = "streaming"
  /\ pc' = [pc EXCEPT !["main"] = "recovering"]
  /\ stream' = <<>>
  /\ UNCHANGED << apart, cfg, audit, attrs, alive, running, nets, cache, frame, todo, warned,
                  pruned, quiet >>

\* the handler with the loop left after the sleep
BackoffAndLeave ==
  /\ pc["main"] = "recovering"
  /\ pc' = [pc EXCEPT !["main"] = "crashed"]
  /\ UNCHANGED << apart, cfg, audit, attrs, alive, running, nets, stream, cache, frame, todo,
                  warned, pruned, quiet >>

\* time.sleep(5), then around the while loop
Backoff ==
  /\ pc["main"] = "recovering"
  /\ pc' = [pc EXCEPT !["main"] = "open"]
  /\ UNCHANGED << apart, cfg, audit, attrs, alive, running, nets, stream, cache, frame, todo, warned, pruned, quiet >>

(***************************************************************************)
(* periodic_rescan_loop.                                                   *)
(***************************************************************************)
\* the interval test and docker.from_env()
RescanEntry(o) ==
  /\ pc["rescan"] = "entry"
  /\ o \in {"ok", "Other"}
  /\ cfg.rescan_seconds <= 0 => o = "ok"
  /\ pc' = [pc EXCEPT !["rescan"] =
             IF cfg.rescan_seconds <= 0 \/ o = "Other" THEN "done" ELSE "sleep"]
  /\ UNCHANGED << apart, cfg, audit, attrs, alive, running, nets, stream, cache, frame, todo, warned, pruned, quiet >>

\* time.sleep(interval), then client.containers.list(all=True)
RescanPass(o) ==
  /\ pc["rescan"] = "sleep"
  /\ o \in {"ok", "APIError", "Other"}
  /\ pc' = [pc EXCEPT !["rescan"] =
             CASE o = "ok" -> "next" [] o = "APIError" -> "sleep" [] OTHER -> "dead"]
  /\ todo' = [todo EXCEPT !["rescan"] = IF o = "ok" THEN SeqOf(alive) ELSE @]
  /\ UNCHANGED << apart, cfg, audit, attrs, alive, running, nets, stream, cache, frame, warned,
                  pruned, quiet >>

Outcomes == {"ok", "NotFound", "APIError", "Other"}

Next ==
  \/ \E t \in Threads, o \in Outcomes : Reload(t, o)
  \/ \E t \in Threads : CacheAdd(t)
  \/ \E t \in Threads : Warn(t)
  \/ \E t \in Threads : MapStep(t)
  \/ \E t \in Threads, o \in Outcomes : ApiCall(t, o)
  \/ \E t \in Threads : PassNext(t)
  \/ \E o \in Outcomes : InitialAttachAll(o)
  \/ Spawn
  \/ \E o \in Outcomes : OpenStream(o)
  \/ \E o \in Outcomes : NextEvent(o)
  \/ StreamFail
  \/ Backoff
  \/ \E o \in Outcomes : RescanEntry(o)
  \/ \E o \in Outcomes : RescanPass(o)
  \/ \E c \in Ids : EnvRestart(c)
  \/ \E c \in Ids : EnvDestroy(c)
  \/ \E e \in NoiseEvents : EnvNoise(e)

Spec == Init /\ [][Next]_vars

(***************************************************************************)
(* main() from its first line: docker.from_env(), then load_autonet_config *)
(* reading os.environ.  A variable's value is a character sequence; the    *)
(* label keys and network names it yields are, once stripped, the atoms    *)
(* the runtime's data is keyed by.                                         *)
(***************************************************************************)
\* Python's truth of an Optional[str]
Truth(v) == v # None /\ v # <<>>

\* os.getenv(name, default)
getenv(name, default) == IF name \in DOMAIN environ THEN environ[name] ELSE default

TrueWords  == { <<"1">>, <<"t","r","u","e">>, <<"y","e","s">>, <<"y">>, <<"o","n">> }
FalseWords == { <<"0">>, <<"f","a","l","s","e">>, <<"n","o">>, <<"n">>, <<"o","f","f">> }

parse_bool(value, default) ==
  IF value = None THEN default
  ELSE LET v == Lower(Strip(value))
       IN  IF v \in TrueWords THEN TRUE
           ELSE IF v \in FalseWords THEN FALSE
           ELSE default

\* the value of a decimal digit
DigitValue(c) == (CHOOSE i \in 1..Len(DIGIT) : DIGIT[i] = c) - 1

\* the digits of an int() literal: digits, single underscores between them
IsIntBody(b) ==
  /\ b # <<>>
  /\ \A i \in 1..Len(b) : b[i] \in Range(DIGIT) \/ b[i] = "_"
  /\ b[1] # "_" /\ b[Len(b)] # "_"
  /\ \A i \in 1..(Len(b) - 1) : ~(b[i] = "_" /\ b[i + 1] = "_")

RECURSIVE IntBodyValue(_, _)
IntBodyValue(b, acc) ==
  IF b = <<>> THEN acc
  ELSE IntBodyValue(Tail(b), IF Head(b) = "_" THEN acc ELSE acc * Len(DIGIT) + DigitValue(Head(b)))

\* int(s): surrounding whitespace, an optional sign, the digits; ok is FALSE where
\* int raises ValueError
parse_int(s) ==
  LET t == Strip(s)
      signed == t # <<>> /\ t[1] \in {"+", "-"}
      body == IF signed THEN Tail(t) ELSE t
  IN  IF IsIntBody(body)
      THEN [ok |-> TRUE,
            value |-> IF signed /\ t[1] = "-" THEN 0 - IntBodyValue(body, 0)
                      ELSE IntBodyValue(body, 0)]
      ELSE [ok |-> FALSE, value |-> 0]

\* the try / except ValueError around int(rescan_seconds_str)
rescan_seconds_of(str) ==
  LET r == parse_int(str)
  IN  IF ~r.ok THEN 30
      ELSE IF r.value < 0 THEN 0
      ELSE r.value

\* the names the environment's values spell
Names == { << <<"k","1">>, "k1" >>, << <<"k","2">>, "k2" >>,
           << <<"n","1">>, "n1" >>, << <<"n","2">>, "n2" >>,
           << <<"a","l","i","a","s">>, "alias" >> }
Intern(s) == (CHOOSE p \in Names : p[1] = s)[2]

key_env(index) == "AUTONET_" \o ToString(index) \o "_KEY"
net_env(index) == "AUTONET_" \o ToString(index) \o "_NET"

\* the while loop of load_autonet_config, from index on
RECURSIVE scan_mappings(_)
scan_mappings(index) ==
  LET key == getenv(key_env(index), None)
      net == getenv(net_env(index), None)
  IN  IF ~Truth(key) /\ ~Truth(net) THEN <<>>
      ELSE (IF Truth(key) /\ Truth(net)
            THEN << [index |-> index, label_key |-> Intern(Strip(key)),
                     network |-> Intern(Strip(net))] >>
            ELSE <<>>) \o scan_mappings(index + 1)

\* the configuration before load_autonet_config has returned
NoCfg ==
  [ mappings |-> <<>>,
    alias_label |-> "alias",
    initial_attach |-> TRUE,
    initial_running_only |-> FALSE,
    auto_disconnect |-> TRUE,
    rescan_seconds |-> 0 ]

\* the dict load_autonet_config returns
loaded_cfg ==
  [ mappings |-> scan_mappings(1),
    alias_label |-> Intern(getenv("LABEL_ALIAS_KEY", <<"a","l","i","a","s">>)),
    initial_attach |-> parse_bool(getenv("INITIAL_ATTACH", <<"t","r","u","e">>), TRUE),
    initial_running_only |->
      parse_bool(getenv("INITIAL_RUNNING_ONLY", <<"f","a","l","s","e">>), FALSE),
    auto_disconnect |-> parse_bool(getenv("AUTO_DISCONNECT", <<"t","r","u","e">>), TRUE),
    rescan_seconds |-> rescan_seconds_of(getenv("AUTONET_RESCAN_SECONDS", <<"3","0">>)) ]

\* the status the process has exited with at p (sys.exit(1), twice), 0 while it runs
exit_code(p) ==
  CASE p = "exit_client"   -> 1
    [] p = "exit_mappings" -> 1
    [] OTHER               -> 0

\* docker.from_env() in main, with its sys.exit(1)
MainEntry(o) ==
  /\ pc["main"] = "start"
  /\ o \in {"ok", "Other"}
  /\ pc' = [pc EXCEPT !["main"] = IF o = "ok" THEN "load" ELSE "exit_client"]
  /\ UNCHANGED << apart, cfg, audit, attrs, alive, running, nets, stream, cache, frame,
                  todo, warned, pruned, quiet >>

\* load_autonet_config with "if not mappings" forgotten
LoadWithoutCheck ==
  /\ pc["main"] = "load"
  /\ cfg' = loaded_cfg
  /\ pc' = [pc EXCEPT !["main"] = "initial"]
  /\ UNCHANGED << apart, audit, attrs, alive, running, nets, stream, cache, frame,
                  todo, warned, pruned, quiet >>

\* cfg = load_autonet_config(), with its sys.exit(1)
LoadAutonetConfig ==
  /\ pc["main"] = "load"
  /\ IF scan_mappings(1) = <<>>
     THEN /\ pc' = [pc EXCEPT !["main"] = "exit_mappings"]
          /\ UNCHANGED cfg
     ELSE /\ cfg' = loaded_cfg
          /\ pc' = [pc EXCEPT !["main"] = "initial"]
  /\ UNCHANGED << apart, audit, attrs, alive, running, nets, stream, cache, frame,
                  todo, warned, pruned, quiet >>

\* the environments main() is started in
Pair(index, key, net) == (key_env(index) :> key) @@ (net_env(index) :> net)
BasePairs == Pair(1, <<"k","1">>, <<"n","1">>) @@ Pair(2, <<"k","2">>, <<"n","2">>)

PairEnvirons ==
  { BasePairs,
    NoEnviron,
    (key_env(1) :> <<"k","1">>) @@ Pair(2, <<"k","2">>, <<"n","2">>),
    (net_env(1) :> <<"n","1">>),
    Pair(MaxIndex, <<"k","2">>, <<"n","2">>),
    Pair(1, <<>>, <<>>) @@ Pair(2, <<"k","2">>, <<"n","2">>),
    Pair(1, <<" ","k","1">>, <<"n","1"," ">>) @@ (key_env(2) :> <<"k","2">>) }

RescanValues ==
  { <<"3","0">>, <<"0">>, <<"-","5">>, <<"a","b","c">>, <<>>, <<" ","7"," ">>,
    <<"+","5">>, <<"1","_","0">>, <<"-","0">>, <<"5",".","5">>, <<"-">> }

OptionEnvirons ==
  { BasePairs @@ ("INITIAL_ATTACH" :> <<"n","o">>),
    BasePairs @@ ("INITIAL_RUNNING_ONLY" :> <<"Y","e","s">>),
    BasePairs @@ ("AUTO_DISCONNECT" :> <<"o","f","f">>),
    BasePairs @@ ("AUTO_DISCONNECT" :> <<"m","a","y","b","e">>) }

Environs ==
  PairEnvirons
    \cup { BasePairs @@ ("AUTONET_RESCAN_SECONDS" :> v) : v \in RescanValues }
    \cup OptionEnvirons

BlueprintsLoad == { <<OnHost, AttachMe>> }

\* the state when the process starts
InitLoad ==
  /\ environ \in Environs
  /\ cfg = NoCfg
  /\ attrs \in BlueprintsLoad
  /\ alive = Ids
  /\ running = {1}
  /\ nets = [c \in Ids |-> attrs[c].Networks0]
  /\ stream = <<>>
  /\ cache = {}
  /\ pc = [t \in Threads |-> IF t = "main" THEN "start" ELSE "off"]
  /\ frame = [t \in Threads |-> NoFrame]
  /\ todo = [t \in Threads |-> <<>>]
  /\ warned = [c \in Ids |-> 0]
  /\ pruned = {}
  /\ quiet = [t \in Threads |-> NoQuiet]
  /\ audit = "none"
  /\ lock = "free"
  /\ call = [t \in Threads |-> NoCall]
  /\ wins = [c \in Ids |-> 0]
  /\ probe = NoProbe

NextLoad ==
  \/ \E o \in Outcomes : MainEntry(o)
  \/ LoadAutonetConfig
  \/ Next

SpecLoad == InitLoad /\ [][NextLoad]_vars

(***************************************************************************)
(* label_truthy and sanitise_alias on their own: a call with arguments     *)
(* drawn from the values below, and its result.                            *)
(***************************************************************************)
\* the variables of main()'s threads, for a process that is not running them
Unstarted ==
  /\ cfg = NoCfg
  /\ attrs = <<AttachMe, MoveMe>>
  /\ alive = Ids
  /\ running = {}
  /\ nets = [c \in Ids |-> attrs[c].Networks0]
  /\ stream = <<>>
  /\ frame = [t \in Threads |-> NoFrame]
  /\ todo = [t \in Threads |-> <<>>]
  /\ warned = [c \in Ids |-> 0]
  /\ pruned = {}
  /\ quiet = [t \in Threads |-> NoQuiet]
  /\ audit = "none"
  /\ environ = NoEnviron

UpperChar(c) ==
  IF c \in Range(LOWER) THEN UPPER[CHOOSE i \in 1..Len(LOWER) : LOWER[i] = c] ELSE c
Upper(s) == [i \in 1..Len(s) |-> UpperChar(s[i])]
Capitalised(s) == [i \in 1..Len(s) |-> IF i = 1 THEN UpperChar(s[i]) ELSE s[i]]

\* the whitespace runs of at most n characters
RECURSIVE Pads(_)
Pads(n) ==
  IF n = 0 THEN { <<>> }
  ELSE Pads(n - 1) \cup { Append(p, w) : p \in Pads(n - 1), w \in Whitespace }

LabelWords ==
  { <<>>, <<"0">>, <<"f","a","l","s","e">>, <<"n","o">>, <<"o","f","f">>,
    <<"1">>, <<"t","r","u","e">>, <<"y","e","s">>, <<"o","n">>, <<"n">>,
    <<"0","0">>, <<"0",".","0">>, <<"-","0">>, <<"f","a","l","s">>, <<"o"," ","f","f">>,
    <<"n","o","n","e">>, <<"n","u","l","l">>, <<"o","f","f","!">> }

LabelValues ==
  {None} \cup
  { l \o w \o r : l \in Pads(MaxPad), r \in Pads(MaxPad),
                  w \in LabelWords \cup { Upper(x) : x \in LabelWords }
                         \cup { Capitalised(x) : x \in LabelWords } }

\* n times the character c
RECURSIVE Rep(_, _)
Rep(c, n) == IF n <= 0 THEN <<>> ELSE <<c>> \o Rep(c, n - 1)

\* alias candidates of n characters: letters and digits; a hyphen inside, first,
\* last; an underscore inside
Shapes(n) ==
  IF n = 0 THEN { <<>> }
  ELSE IF n = 1 THEN { <<"a">>, <<"-">>, <<"_">> }
  ELSE { Rep("a", n),
         <<"Z">> \o Rep("5", n - 2) \o <<"9">>,
         <<"a">> \o Rep("-", n - 2) \o <<"b">>,
         <<"-">> \o Rep("a", n - 1),
         Rep("a", n - 1) \o <<"-">>,
         <<"a">> \o Rep("_", n - 2) \o <<"b">> }

AliasLengths == (0..3) \cup ((AliasMax - 2)..(AliasMax + MaxOver))

AliasValues ==
  { l \o b \o r : l \in { <<>>, <<" ">> },
                  r \in { <<>>, <<" ">>, <<"\n">>, <<"\n","b">> },
                  b \in UNION { Shapes(n) : n \in AliasLengths } }

Fallbacks == { <<"w","e","b">>, <<"d","b","_","1">> }

Probes ==
  { [fn |-> "label_truthy", value |-> v, fallback |-> <<>>, done |-> FALSE, out |-> FALSE] :
      v \in LabelValues }
  \cup
  { [fn |-> "sanitise_alias", value |-> v, fallback |-> f, done |-> FALSE, out |-> <<>>] :
      v \in AliasValues, f \in Fallbacks }

InitPure ==
  /\ Unstarted
  /\ cache = {}
  /\ pc = [t \in Threads |-> "off"]
  /\ lock = "free"
  /\ call = [t \in Threads |-> NoCall]
  /\ wins = [c \in Ids |-> 0]
  /\ probe \in Probes

CallLabelTruthy ==
  /\ probe.fn = "label_truthy"
  /\ ~probe.done
  /\ probe' = [probe EXCEPT !.done = TRUE, !.out = label_truthy(probe.value)]
  /\ UNCHANGED << cfg, attrs, alive, running, nets, stream, cache, pc, frame, todo,
                  warned, pruned, quiet, audit, environ, lock, call, wins >>

CallSanitiseAlias ==
  /\ probe.fn = "sanitise_alias"
  /\ ~probe.done
  /\ probe' = [probe EXCEPT !.done = TRUE,
                            !.out = sanitise_alias(probe.value, probe.fallback)]
  /\ UNCHANGED << cfg, attrs, alive, running, nets, stream, cache, pc, frame, todo,
                  warned, pruned, quiet, audit, environ, lock, call, wins >>

NextPure == CallLabelTruthy \/ CallSanitiseAlias

SpecPure == InitPure /\ [][NextPure]_vars

(***************************************************************************)
(* cache_add and cache_remove step by step, as threads run them: the       *)
(* "with _cache_lock" entry, the membership test, the insertion, and the   *)
(* return that releases the lock.  call[t].before is the membership of the *)
(* id when the call took the lock; wins counts the True results.           *)
(***************************************************************************)
\* what cache_add and cache_remove leave alone
outside_cache ==
  << cfg, attrs, alive, running, nets, stream, frame, todo, warned, pruned, quiet,
     audit, environ, probe >>

InitCache ==
  /\ Unstarted
  /\ cache = {}
  /\ pc = [t \in Threads |-> "idle"]
  /\ lock = "free"
  /\ call = [t \in Threads |-> NoCall]
  /\ wins = [c \in Ids |-> 0]
  /\ probe = NoProbe

\* a thread calls cache_add(c) or cache_remove(c) and reaches the with statement
CallCacheOp(t, op, c) ==
  /\ pc[t] = "idle"
  /\ op \in {"cache_add", "cache_remove"}
  /\ call' = [call EXCEPT ![t] = [op |-> op, cid |-> c, before |-> FALSE, ret |-> "none"]]
  /\ pc' = [pc EXCEPT ![t] = "with"]
  /\ UNCHANGED << outside_cache, cache, lock, wins >>

\* "with _cache_lock" that does not wait for the lock
AcquireUnlocked(t) ==
  /\ pc[t] = "with"
  /\ lock' = t
  /\ call' = [call EXCEPT ![t].before = call[t].cid \in cache]
  /\ pc' = [pc EXCEPT ![t] = IF call[t].op = "cache_add" THEN "test" ELSE "discard"]
  /\ UNCHANGED << outside_cache, cache, wins >>

\* "with _cache_lock": the thread enters when the lock is free
AcquireLock(t) ==
  /\ pc[t] = "with"
  /\ lock = "free"
  /\ lock' = t
  /\ call' = [call EXCEPT ![t].before = call[t].cid \in cache]
  /\ pc' = [pc EXCEPT ![t] = IF call[t].op = "cache_add" THEN "test" ELSE "discard"]
  /\ UNCHANGED << outside_cache, cache, wins >>

\* "if container_id in unsupported_network_cache: return False"
AddTest(t) ==
  /\ pc[t] = "test"
  /\ IF call[t].cid \in cache
     THEN /\ call' = [call EXCEPT ![t].ret = "False"]
          /\ pc' = [pc EXCEPT ![t] = "idle"]
          /\ lock' = "free"
     ELSE /\ pc' = [pc EXCEPT ![t] = "insert"]
          /\ UNCHANGED << call, lock >>
  /\ UNCHANGED << outside_cache, cache, wins >>

\* "unsupported_network_cache.add(container_id); return True"
AddInsert(t) ==
  /\ pc[t] = "insert"
  /\ cache' = cache \cup {call[t].cid}
  /\ call' = [call EXCEPT ![t].ret = "True"]
  /\ wins' = [wins EXCEPT ![call[t].cid] = IF @ < 2 THEN @ + 1 ELSE @]
  /\ pc' = [pc EXCEPT ![t] = "idle"]
  /\ lock' = "free"
  /\ UNCHANGED outside_cache

\* "unsupported_network_cache.discard(container_id)", and the return
RemoveDiscard(t) ==
  /\ pc[t] = "discard"
  /\ cache' = cache \ {call[t].cid}
  /\ wins' = [wins EXCEPT ![call[t].cid] = 0]
  /\ pc' = [pc EXCEPT ![t] = "idle"]
  /\ lock' = "free"
  /\ UNCHANGED << outside_cache, call >>

NextCache ==
  \/ \E t \in Threads, op \in {"cache_add", "cache_remove"}, c \in Ids : CallCacheOp(t, op, c)
  \/ \E t \in Threads : AcquireLock(t)
  \/ \E t \in Threads : AddTest(t)
  \/ \E t \in Threads : AddInsert(t)
  \/ \E t \in Threads : RemoveDiscard(t)

SpecCache == InitCache /\ [][NextCache]_vars

(***************************************************************************)
(* The same program with the history of completed calls kept, and under    *)
(* the fairness of its scheduling: each thread that can step does, and a   *)
(* runtime call that is retried for ever does not fail for ever.           *)
(***************************************************************************)
ConfigsTwice ==
  { DefaultCfg,
    [DefaultCfg EXCEPT !.mappings = MapShared] }
BlueprintsTwice == { <<MoveMe, OnHost>> }

InitTwice == InitWith(ConfigsTwice, BlueprintsTwice, Threads)
SpecTwice == InitTwice /\ [][Next]_vars

BlueprintsFair == { <<OnHost, AttachMe>>, <<AttachMe, MoveMe>> }
InitFair == InitWith({DefaultCfg}, BlueprintsFair, {"none"})

ReconcileStep(t) ==
  \/ \E o \in Outcomes : Reload(t, o)
  \/ CacheAdd(t)
  \/ Warn(t)
  \/ MapStep(t)
  \/ \E o \in Outcomes : ApiCall(t, o)
  \/ PassNext(t)

MainStep ==
  \/ ReconcileStep("main")
  \/ \E o \in Outcomes : InitialAttachAll(o)
  \/ Spawn
  \/ \E o \in Outcomes : OpenStream(o)
  \/ \E o \in Outcomes : NextEvent(o)
  \/ Backoff

RescanStep ==
  \/ ReconcileStep("rescan")
  \/ \E o \in Outcomes : RescanEntry(o)
  \/ \E o \in Outcomes : RescanPass(o)

\* each thread that can take a step takes one (the runtime may fail any call,
\* and the stream, at any time: StreamFail is no step of a thread)
Fairness ==
  /\ WF_vars(MainStep)
  /\ WF_vars(RescanStep)

FairSpec == InitFair /\ [][Next]_vars /\ Fairness

\* moreover no runtime call that is retried for ever fails for ever
RuntimeRecovers ==
  /\ \A t \in Threads, c \in Ids :
       /\ SF_vars(frame[t].cid = c /\ Reload(t, "ok"))
       /\ SF_vars(frame[t].cid = c /\ ApiCall(t, "ok"))
  /\ SF_vars(RescanPass("ok"))
  /\ SF_vars(OpenStream("ok"))

StrongFairSpec == InitFair /\ [][Next]_vars /\ Fairness /\ RuntimeRecovers

(***************************************************************************)
(* Vocabulary of the properties.                                           *)
(***************************************************************************)
\* thread t took a step of its reconcile_container call
Stepped(t) == pc'[t] # pc[t] \/ frame'[t].idx # frame[t].idx

\* thread t is about to issue a runtime call
Calling(t) == pc[t] \in {"connect", "disconnect"}

\* the label of mapping i on container c is truthy
Wanted(c, i) == label_truthy(attrs[c].Labels[cfg.mappings[i].label_key])

MappingIds == 1..Len(cfg.mappings)

\* the network modes the specification names as unattachable
NamedUnattachable(c) ==
  \/ attrs[c].NetworkMode \in {HostMode, NoneMode}
  \/ StartsWith(attrs[c].NetworkMode, ContainerPrefix)

\* attachments agree with the labels of container c
Consistent(c) ==
  \A i \in MappingIds :
    /\ Wanted(c, i) => cfg.mappings[i].network \in nets[c]
    /\ (~Wanted(c, i) /\ cfg.auto_disconnect) => cfg.mappings[i].network \notin nets[c]

\* no two mappings of one network disagree on container c
MappingsAgree(c) ==
  \A i, j \in MappingIds :
    cfg.mappings[i].network = cfg.mappings[j].network => (Wanted(c, i) <=> Wanted(c, j))

(***************************************************************************)
(* C1.  Eventual consistency: with the rescan enabled, an attachable        *)
(* container (mode not host, none or container:x) that exists for ever is in  *)
(* the end attached to every mapped network whose label is truthy and,      *)
(* with auto_disconnect, detached from every other mapped network, and      *)
(* stays so, as long as the process lives.  Checked under StrongFairSpec.   *)
(***************************************************************************)
C1_EventualConsistency ==
  \A c \in Ids :
    [](/\ cfg.rescan_seconds > 0
       /\ ~NamedUnattachable(c)
       /\ c \in alive
       /\ pc["main"] # "crashed")
      => <>[]Consistent(c)

C3_PerMappingDecision ==
  [][\A t \in Threads :
       /\ (pc[t] = "mapping" /\ Stepped(t)) =>
            LET c == frame[t].cid
                n == cfg.mappings[frame[t].idx].network
            IN  /\ pc'[t] = "connect" <=> (Wanted(c, frame[t].idx) /\ n \notin frame[t].snap)
                /\ pc'[t] = "disconnect" <=>
                     (~Wanted(c, frame[t].idx) /\ n \in frame[t].snap /\ cfg.auto_disconnect)
                /\ Calling(t)' => frame'[t].idx = frame[t].idx
       /\ (Calling(t) /\ Stepped(t)) => ~Calling(t)'
    ]_vars

\* a disconnect was decided for the second mapping, and one with auto_disconnect
\* off was passed over
C3_Witness ==
  \E t \in Threads :
    \/ pc[t] = "disconnect"
    \/ /\ pc[t] = "mapping" /\ frame[t].idx = 2 /\ ~cfg.auto_disconnect
       /\ ~Wanted(frame[t].cid, 1) /\ cfg.mappings[1].network \in frame[t].snap

(***************************************************************************)
(* C4.  No connect or disconnect call is ever issued for a container whose  *)
(* network mode is host, none, or begins with container:.                   *)
(***************************************************************************)
C4_NoCallWhenUnattachable ==
  \A t \in Threads : Calling(t) => ~NamedUnattachable(frame[t].cid)

(***************************************************************************)
(* C5.  Skip-cache one-shot: between two prunings of a container's id the   *)
(* "Skipping" warning is logged at most once for it, whichever threads      *)
(* reconcile it and however often; an id in the cache has been warned       *)
(* about, or its one warning is being logged.                               *)
(***************************************************************************)
C5_WarnOnce ==
  \A c \in Ids :
    /\ warned[c] <= 1
    /\ c \in cache =>
         \/ warned[c] = 1
         \/ \E t \in Threads : pc[t] = "warn" /\ frame[t].cid = c

\* a later trigger reaches cache_add for a container already warned about
C5_Witness ==
  \E t \in Threads :
    /\ pc[t] = "cache_add"
    /\ warned[frame[t].cid] = 1
    /\ frame[t].cid \in cache

(***************************************************************************)
(* C6.  Destroy pruning: once the event loop has processed a destroy event  *)
(* for an id, the skip cache does not contain that id.                      *)
(***************************************************************************)
C6_PrunedStaysOut == \A c \in pruned : c \notin cache

(***************************************************************************)
(* C7.  Skip-cache boundedness: every id in the cache is of a container     *)
(* that exists or whose destroy event is still to be processed, and the id  *)
(* of a destroyed container does not stay in the cache for ever.  Checked   *)
(* under FairSpec.                                                          *)
(***************************************************************************)
C7_CacheBounded ==
  /\ [](\A c \in cache : c \in alive \/ c \notin pruned)
  /\ \A c \in Ids : (c \notin alive) ~> (c \notin cache)

(***************************************************************************)
(* C8.  Failure isolation: after a runtime call for one mapping, however    *)
(* it ended, the next mapping is evaluated; and when a reconcile_container  *)
(* call of a sweep or rescan pass ends, however it ended, the pass goes on  *)
(* to the remaining listed containers.                                      *)
(***************************************************************************)
C8_FailureIsolation ==
  [][\A t \in Threads :
       /\ (Calling(t) /\ Stepped(t) /\ frame[t].idx < Len(cfg.mappings)) =>
            (pc'[t] = "mapping" /\ frame'[t].idx = frame[t].idx + 1)
       /\ (pc[t] \in ReconcilePcs /\ pc'[t] \notin ReconcilePcs
           /\ frame[t].ctx \in {"initial", "rescan"} /\ todo[t] # <<>>) =>
            pc'[t] = "next"
    ]_vars

(***************************************************************************)
(* C9.  When the reload fails, in whatever way, reconcile_container returns *)
(* normally to its caller, with no runtime call issued and the skip cache   *)
(* and the attachments as they were.                                        *)
(***************************************************************************)
C9_ReloadFailureReturns ==
  [][\A t \in Threads :
       (pc[t] = "reload" /\ pc'[t] \notin {"reload", "mapping", "cache_add"}) =>
         /\ pc'[t] = return_pc(frame[t].ctx)
         /\ cache' = cache
         /\ nets' = nets
    ]_vars

(***************************************************************************)
(* C10.  Event-loop recovery: once entered, the event loop is never left,   *)
(* and every stream failure is followed, after the backoff, by a re-open    *)
(* of the stream, however many failures came before.  Checked under         *)
(* FairSpec.                                                                *)
(***************************************************************************)
EventLoopPcs == {"open", "streaming", "recovering"}
InEventLoop ==
  \/ pc["main"] \in EventLoopPcs
  \/ pc["main"] \in ReconcilePcs /\ frame["main"].ctx = "event"

C10_Recovery ==
  /\ [][InEventLoop => InEventLoop']_vars
  /\ (pc["main"] = "recovering") ~> (pc["main"] = "open")

\* the loop recovers while a container it was asked about is still unattached
C10_Witness ==
  /\ pc["main"] = "recovering"
  /\ \E c \in alive : ~Consistent(c)

(***************************************************************************)
(* C11.  Independent fault domains: no step of the event loop, a stream     *)
(* failure and its backoff included, changes where the rescan thread is or  *)
(* what it has left to do, and no step of the rescan thread, a failed       *)
(* listing or reconcile_container call included, changes where the event    *)
(* loop is or the events it has still to consume; each keeps a step it can  *)
(* take whatever state the other is in.                                     *)
(***************************************************************************)
RescanLoopPcs == {"sleep", "next"} \cup ReconcilePcs
MainLocal == << pc["main"], frame["main"].cid, frame["main"].idx, todo["main"], stream >>
RescanLocal == << pc["rescan"], frame["rescan"].cid, frame["rescan"].idx, todo["rescan"] >>

C11_IndependentFaultDomains ==
  /\ [][/\ (InEventLoop /\ pc'["main"] # pc["main"]) => RescanLocal' = RescanLocal
        /\ (pc["rescan"] \in RescanLoopPcs /\ RescanLocal' # RescanLocal) =>
             (pc'["main"] = pc["main"] /\ frame'["main"] = frame["main"]
              /\ stream' = stream)
       ]_vars
  /\ [](pc["rescan"] \in RescanLoopPcs => ENABLED RescanStep)
  /\ []((InEventLoop /\ (pc["main"] = "streaming" => stream # <<>>)) => ENABLED MainStep)

\* the rescan thread has died of an exception and the event loop has since taken
\* an event of the stream it opened
C11_Witness ==
  /\ pc["rescan"] = "dead"
  /\ pc["main"] = "reload"
  /\ frame["main"].ctx = "event"

(***************************************************************************)
(* C12.  The rescan loop runs for ever: once the thread is in its loop it   *)
(* never leaves it, whatever fails in a pass (the listing, or a             *)
(* reconcile_container call on a listed container), and every pass is       *)
(* followed by the next interval's sleep, so that passes occur infinitely   *)
(* often.  Checked under FairSpec.                                          *)
(***************************************************************************)
C12_RescanForever ==
  /\ [][pc["rescan"] \in RescanLoopPcs => pc'["rescan"] \in RescanLoopPcs]_vars
  /\ [](pc["rescan"] \in RescanLoopPcs => []<>(pc["rescan"] = "sleep"))

(***************************************************************************)
(* C13.  Rescan-interval parsing: once the configuration is loaded, its     *)
(* rescan interval is 30 when AUTONET_RESCAN_SECONDS is unset, negative or  *)
(* not an integer, and the integer given otherwise; and with a malformed    *)
(* value the rescan thread is started.  Checked under SpecLoad.             *)
(***************************************************************************)
Loaded == pc["main"] \notin {"start", "load"} /\ exit_code(pc["main"]) = 0

ClaimedInterval(v) ==
  IF v # None /\ parse_int(v).ok /\ parse_int(v).value >= 0
  THEN parse_int(v).value
  ELSE 30

C13_RescanIntervalParsing ==
  Loaded =>
    LET v == getenv("AUTONET_RESCAN_SECONDS", None)
    IN  /\ cfg.rescan_seconds = ClaimedInterval(v)
        /\ (ClaimedInterval(v) > 0 /\ InEventLoop) => pc["rescan"] # "off"

(***************************************************************************)
(* C14.  With no valid AUTONET_n_KEY / AUTONET_n_NET pair (of the indexes   *)
(* 1, 2, ... up to the first where both are missing, none has both set)     *)
(* the process never gets beyond load_autonet_config: it is before it, or   *)
(* has exited with a non-zero status; no configuration is loaded, and the   *)
(* initial sweep, the rescan thread and the event loop have done nothing.   *)
(* Checked under SpecLoad.                                                  *)
(***************************************************************************)
IsSet(name) == Truth(getenv(name, None))
Scanned(i) == \A j \in 1..(i - 1) : IsSet(key_env(j)) \/ IsSet(net_env(j))
NoValidPair ==
  \A i \in 1..MaxIndex : Scanned(i) => ~(IsSet(key_env(i)) /\ IsSet(net_env(i)))

C14_ExitWithoutMappings ==
  NoValidPair =>
    /\ pc["main"] \in {"start", "load"} \/ exit_code(pc["main"]) # 0
    /\ pc["rescan"] = "off"
    /\ cfg = NoCfg
    /\ frame = [t \in Threads |-> NoFrame] /\ todo = [t \in Threads |-> <<>>]
    /\ nets = [c \in Ids |-> attrs[c].Networks0] /\ cache = {}

\* the process has exited for want of mappings although variables were set
C14_Witness ==
  /\ pc["main"] = "exit_mappings"
  /\ NoValidPair
  /\ \E i \in 1..MaxIndex : IsSet(key_env(i)) /\ IsSet(net_env(i))

(***************************************************************************)
(* C15.  label_truthy(v) is false iff v is absent, or v is whitespace       *)
(* around nothing or around a word that, lower-cased, is one of 0, false,   *)
(* no, off; it is true for every other value.  Checked under SpecPure.      *)
(***************************************************************************)
FalseLabelWords == { <<"0">>, <<"f","a","l","s","e">>, <<"n","o">>, <<"o","f","f">> }

ClaimedFalse(v) ==
  \/ v = None
  \/ /\ v # None
     /\ \/ \A k \in 1..Len(v) : v[k] \in Whitespace
        \/ \E i, j \in 1..Len(v) :
             /\ i <= j
             /\ \A k \in 1..(i - 1) : v[k] \in Whitespace
             /\ \A k \in (j + 1)..Len(v) : v[k] \in Whitespace
             /\ Lower(SubSeq(v, i, j)) \in FalseLabelWords

C15_LabelTruthy ==
  (probe.fn = "label_truthy" /\ probe.done) =>
    (probe.out = FALSE <=> ClaimedFalse(probe.value))

\* a value found false only through trimming and lower-casing
C15_Witness ==
  /\ probe.fn = "label_truthy" /\ probe.done
  /\ probe.out = FALSE
  /\ probe.value # None
  /\ Strip(probe.value) # probe.value
  /\ Lower(probe.value) # probe.value

(***************************************************************************)
(* C16.  sanitise_alias returns the candidate, trimmed and cut to 64        *)
(* characters, iff that string obeys the DNS-label grammar (1 to 64         *)
(* characters, the first and the last a letter or digit, the others a       *)
(* letter, a digit or a hyphen), and the fallback otherwise; it returns     *)
(* nothing else.  Checked under SpecPure.                                   *)
(***************************************************************************)
DnsLabel(t) ==
  /\ Len(t) \in 1..AliasMax
  /\ IsAlnum(t[1]) /\ IsAlnum(t[Len(t)])
  /\ \A k \in 2..(Len(t) - 1) : IsAlnum(t[k]) \/ t[k] = "-"

C16_SanitiseAlias ==
  (probe.fn = "sanitise_alias" /\ probe.done) =>
    LET t == Take(Strip(probe.value), AliasMax)
    IN  /\ DnsLabel(t) => probe.out = t
        /\ ~DnsLabel(t) => probe.out = probe.fallback

(***************************************************************************)
(* C17.  The skip-cache operations are atomic: a cache_add(id) call returns *)
(* True iff id was absent when the call took effect, and leaves it present; *)
(* of the cache_add(id) calls since id's last removal at most one returned  *)
(* True, and one did when id is present; a cache_remove(id) call leaves id  *)
(* absent and changes nothing when it was absent.  Checked under SpecCache. *)
(***************************************************************************)
Returns(t, op) == pc[t] \in {"test", "insert", "discard"} /\ pc'[t] = "idle" /\ call[t].op = op

C17_CacheAtomic ==
  /\ [][\A t \in Threads :
          /\ Returns(t, "cache_add") =>
               /\ call'[t].ret = "True" <=> ~call[t].before
               /\ call'[t].ret = "False" <=> call[t].before
               /\ call[t].cid \in cache'
               /\ cache' \ {call[t].cid} = cache \ {call[t].cid}
          /\ Returns(t, "cache_remove") =>
               /\ call[t].cid \notin cache'
               /\ call[t].cid \notin cache => cache' = cache
               /\ cache' \cup {call[t].cid} = cache \cup {call[t].cid}
       ]_vars
  /\ [](\A c \in Ids : wins[c] <= 1 /\ (c \in cache => wins[c] = 1))

\* two cache_add calls for one id are in progress at once, one past its test
C17_Witness ==
  /\ pc["main"] = "insert" /\ pc["rescan"] = "with"
  /\ call["main"].cid = call["rescan"].cid
  /\ call["rescan"].op = "cache_add"

(***************************************************************************)
(* C18.  Event dispatch: the event loop calls reconcile_container for an    *)
(* event only if the event's Type is container, its status (the field       *)
(* status, else Action) is one of start, restart, die, stop, update,        *)
(* rename and it has an id, and then once, for the container of that id,    *)
(* the event being consumed; an event consumed without that call changes    *)
(* the skip cache only if it is such an event with status destroy, which    *)
(* removes its id, and changes no attachment.                               *)
(***************************************************************************)
ClaimedStatus(e) == IF e.status # "" THEN e.status ELSE e.Action
Actionable(e) ==
  /\ e.Type = "container"
  /\ ClaimedStatus(e) \in {"start", "restart", "die", "stop", "destroy", "update", "rename"}
  /\ e.id # 0

C18_EventDispatch ==
  [][(pc["main"] = "streaming" /\ stream # <<>>) =>
       LET e == Head(stream) IN
       /\ pc'["main"] = "reload" =>
            /\ Actionable(e) /\ ClaimedStatus(e) # "destroy"
            /\ frame'["main"].cid = e.id /\ frame'["main"].ctx = "event"
            /\ stream' = Tail(stream)
            /\ cache' = cache /\ nets' = nets
       /\ (pc'["main"] = "streaming" /\ stream' = Tail(stream)) =>
            /\ cache' = IF Actionable(e) /\ ClaimedStatus(e) = "destroy"
                        THEN cache \ {e.id} ELSE cache
            /\ nets' = nets
            /\ frame'["main"] = frame["main"]
    ]_vars

\* after a destroy event was processed, an event that has only the Action field
\* has led to a reconcile_container call
C18_Witness ==
  /\ pc["main"] = "reload"
  /\ frame["main"].ctx = "event"
  /\ pruned # {}

(***************************************************************************)
(* C19.  A per-event failure keeps the event loop Streaming: when fetching  *)
(* the event's container fails, in whatever way, the event is consumed and  *)
(* the loop stays at the stream; and a reconcile_container call for an      *)
(* event, however it ends, gives way to the stream as it was, with no       *)
(* backoff and no re-open.                                                  *)
(***************************************************************************)
C19_PerEventFailureSkips ==
  [][/\ (pc["main"] \in ReconcilePcs /\ frame["main"].ctx = "event") =>
          /\ pc'["main"] \in ReconcilePcs \cup {"streaming"}
          /\ stream' = stream \/ Len(stream') > Len(stream)
     /\ (\E o \in Outcomes \ {"ok"} : NextEvent(o)) =>
          (pc'["main"] = "streaming" /\ stream' = Tail(stream))
    ]_vars

(***************************************************************************)
(* C20.  Startup ordering: while the initial sweep runs, the rescan thread  *)
(* is not started and no event stream is open; when the event loop is       *)
(* entered the sweep has nothing left to reconcile; and the rescan thread   *)
(* is started, on entering the event loop, iff the interval is positive.    *)
(***************************************************************************)
InSweep ==
  \/ pc["main"] \in {"initial", "next", "spawn"}
  \/ pc["main"] \in ReconcilePcs /\ frame["main"].ctx = "initial"

C20_StartupOrdering ==
  /\ InSweep => (pc["rescan"] = "off" /\ stream = <<>> /\ pruned = {})
  /\ InEventLoop => (todo["main"] = <<>> /\ (pc["rescan"] # "off" <=> cfg.rescan_seconds > 0))
  /\ pc["rescan"] # "off" => (InEventLoop /\ cfg.rescan_seconds > 0)

\* the thread is started, after a sweep that attached or detached a container
C20_Witness ==
  /\ pc["main"] = "open"
  /\ pc["rescan"] = "entry"
  /\ \E c \in Ids : nets[c] # attrs[c].Networks0

====
